---- MODULE Spec2Model ----
(***************************************************************************)
(* Rendezvous registry of p2pquic-go (package signaling), its HTTP adapter  *)
(* (HttpSpec), the peer controller p2pquic.Peer (PeerSpec) and the         *)
(* controller's continuous hole-punching task beside the registry          *)
(* (PunchSpec).                                                            *)
(*                                                                         *)
(* Two implementations of signaling.Server live in the repository:         *)
(*   "ttl"   - the registry with TTL eviction, background sweeper and      *)
(*             Close (src/unnamed/part_000);                               *)
(*   "plain" - the registry of src/pkg/signaling/server.go, which the HTTP *)
(*             adapter (src/unnamed/part_002) is compiled against; it has  *)
(*             no timestamps check, no sweeper and no Close.               *)
(* NewServer of either one is the initial state; impl records which.       *)
(*                                                                         *)
(* Time is in whole seconds.  Callers are goroutines.  Server.mu makes     *)
(* every critical section (Lock..Unlock, RLock..RUnlock) one step; what a  *)
(* method does before taking the lock is a step of its own: Register reads *)
(* the clock and builds its PeerInfo, cleanupExpired reads the clock.      *)
(* GetPeer, GetAllPeers, PeerCount and RemovePeer are one critical section *)
(* each.  The sweeper is the cleanupLoop goroutine.                        *)
(***************************************************************************)
EXTENDS Integers, Sequences, FiniteSets, TLC

\* ---------------------------------------------------------------- constants
peerTTL == 30
cleanupInterval == 5

\* ------------------------------------------------------------------- bounds
\* The clock runs to MaxTime.  It is read at the instants 0 and 1, at
\* peerTTL + 1 (where a record of instant 1 has exactly the age peerTTL and a
\* record of instant 0 is one second past it) and at every later ticker instant.
MaxTime == 39
\* Register calls made in one behaviour, and executions of close(stopCleanup)
\* after which no further Close call is made.
MaxRegs == 2
MaxCloses == 2

Instants ==
  {t \in 0..MaxTime :
     \/ t \in {0, 1, peerTTL + 1}
     \/ (t > peerTTL + 1 /\ t % cleanupInterval = 0)}

PeerIDs == {"a", "b"}
\* The keys the map can hold: Register takes any string, the empty one included.
Keys == PeerIDs \cup {""}
Writers == {"w1", "w2"}

\* A Go slice: nil or not, and its elements ([]Candidate(nil) and []Candidate{}
\* both have length 0).
NilSlice == [nil |-> TRUE, elems |-> << >>]
Slice(elems) == [nil |-> FALSE, elems |-> elems]

c1 == [IP |-> "10.0.0.1", Port |-> 9000]
c2 == [IP |-> "10.0.0.2", Port |-> 9001]
CandLists == {Slice(<< >>), Slice(<<c1>>), Slice(<<c2, c1>>)}
\* The Register calls made: peer "a" with two different lists, peer "b" with none.
RegInputs == {<<"a", Slice(<<c1>>)>>, <<"a", Slice(<<c2, c1>>)>>, <<"b", Slice(<< >>)>>}

Impls == {"ttl", "plain"}

\* ------------------------------------------------------------------- values
\* The nil *PeerInfo / an absent map key.
NoPeer == [null |-> TRUE]

\* &PeerInfo{ID: peerID, Candidates: candidates, Timestamp: time.Now()}
NewPeerInfo(peerID, cands, now) ==
  [ID |-> peerID, Candidates |-> cands, Timestamp |-> now]

\* peers: make(map[string]*PeerInfo)
EmptyPeers == [id \in Keys |-> NoPeer]

\* now.Sub(peer.Timestamp) > peerTTL
Expired(now, peer) == now - peer.Timestamp > peerTTL

\* now.Sub(peer.Timestamp) <= peerTTL
Live(now, peer) == now - peer.Timestamp <= peerTTL

VARIABLES
  impl,          \* which Server implementation was constructed
  clock,         \* wall clock, seconds
  peers,         \* Server.peers
  twin,          \* peers of a registry given the same calls whose sweeper never runs
  wpc,           \* writer goroutines: position in Register, "idle" or "built"
  wPeer,         \* writer goroutines: the PeerInfo built by Register
  wId,           \* writer goroutines: the peerID argument of Register
  wCands,        \* writer goroutines: the candidates argument of Register
  nReg,          \* Register calls started
  sweepPc,       \* cleanupLoop: "select", "now" (in cleanupExpired), "done"
  sweepNow,      \* cleanupExpired: its local now
  tickPending,   \* a tick waits in ticker.C
  stopClosed,    \* stopCleanup is closed
  onceDone,      \* cleanupOnce has run
  closeSignals,  \* executions of close(s.stopCleanup)
  panicked,      \* close of a closed channel
  ret,           \* what the call made in the last step returned
  \* The peer controller (p2pquic.Peer) and the operating system under it.
  constructed,   \* NewPeer has returned a Peer
  config,        \* Peer.config
  candidates,    \* Peer.candidates
  udpConn,       \* Peer.udpConn: 0 is nil, n > 0 the n-th socket created
  quicListener,  \* Peer.quicListener: 0 is nil, n > 0 the n-th listener started
  socks,         \* the UDP sockets created: port, open or closed, Close calls
  lsnrs,         \* the transport listeners started: socket, open or closed
  discovered,    \* DiscoverCandidates has been called
  closeCalled,   \* Peer.Close has been called
  cpc,           \* Connect: "idle", "punch", "sleep", "dial"
  cCands,        \* Connect: its local candidates
  ci,            \* Connect: index of the candidate the loop is at
  ck,            \* holePunch: the inner loop's i
  trace,         \* datagram sends and dials of the Connect call, in order
  nCalls,        \* calls of controller methods made
  cancelled,     \* the context the application holds is done
  hpc,           \* ContinuousHolePunch: "idle", "wait" (at the select), "send", "done"
  hTickPending,  \* ContinuousHolePunch: ticker.C holds a tick
  hTicks,        \* ContinuousHolePunch: ticks the ticker has delivered
  hPeers,        \* ContinuousHolePunch: peers, the listing of the tick
  hi,            \* ContinuousHolePunch: index of the peer the outer loop is at
  hj,            \* ContinuousHolePunch: index of the candidate, 0 before the inner loop
  hNew,          \* ContinuousHolePunch: the peer at hi was not in knownPeers
  knownPeers,    \* ContinuousHolePunch: knownPeers
  hTrace         \* datagram sends of the tick, in order

cfgVars == <<constructed, config, candidates, discovered, closeCalled>>
sockVars == <<udpConn, quicListener, socks, lsnrs>>
connVars == <<cpc, cCands, ci, ck, trace>>
punchVars == <<hpc, hTickPending, hTicks, hPeers, hi, hj, hNew, knownPeers, hTrace>>
ctlVars == <<cfgVars, sockVars, connVars, nCalls, cancelled, punchVars>>

vars == <<impl, clock, peers, twin, wpc, wPeer, wId, wCands, nReg, sweepPc, sweepNow,
          tickPending, stopClosed, onceDone, closeSignals, panicked, ret, ctlVars>>

NoRet == [op |-> "none"]

regVars == <<wpc, wPeer, wId, wCands, nReg>>
sweepVars == <<sweepPc, sweepNow, tickPending>>
closeVars == <<stopClosed, onceDone, closeSignals, panicked>>

\* The zero Config and the controller before NewPeer is called.
NoConfig == [PeerID |-> "", LocalPort |-> 0, SignalingURL |-> "", EnableSTUN |-> FALSE]

CtlInit ==
  /\ constructed = FALSE
  /\ config = NoConfig
  /\ candidates = NilSlice
  /\ udpConn = 0
  /\ quicListener = 0
  /\ socks = << >>
  /\ lsnrs = << >>
  /\ discovered = FALSE
  /\ closeCalled = FALSE
  /\ cpc = "idle"
  /\ cCands = NilSlice
  /\ ci = 0
  /\ ck = 0
  /\ trace = << >>
  /\ nCalls = 0
  /\ cancelled = FALSE
  /\ hpc = "idle"
  /\ hTickPending = FALSE
  /\ hTicks = 0
  /\ hPeers = << >>
  /\ hi = 0
  /\ hj = 0
  /\ hNew = FALSE
  /\ knownPeers = {}
  /\ hTrace = << >>

\* ---------------------------------------------------------------- NewServer
Init ==
  /\ impl \in Impls
  /\ clock = 0
  /\ peers = EmptyPeers
  /\ twin = EmptyPeers
  /\ wpc = [w \in Writers |-> "idle"]
  /\ wPeer = [w \in Writers |-> NoPeer]
  /\ wId = [w \in Writers |-> "a"]
  /\ wCands = [w \in Writers |-> NilSlice]
  /\ nReg = 0
  /\ sweepPc = IF impl = "ttl" THEN "select" ELSE "done"
  /\ sweepNow = 0
  /\ tickPending = FALSE
  /\ stopClosed = FALSE
  /\ onceDone = FALSE
  /\ closeSignals = 0
  /\ panicked = FALSE
  /\ ret = NoRet
  /\ CtlInit

\* -------------------------------------------------------------------- clock
\* The ticker created by cleanupLoop fires every cleanupInterval; its channel
\* holds one tick, further ticks are dropped while it is full.
TickerFires(from, to) == to \div cleanupInterval > from \div cleanupInterval

Tick ==
  /\ \E t \in Instants :
       /\ t > clock
       /\ clock' = t
       /\ tickPending' = (tickPending \/ (sweepPc # "done" /\ TickerFires(clock, t)))
  /\ ret' = NoRet
  /\ UNCHANGED <<ctlVars, impl, peers, twin, regVars, sweepPc, sweepNow, closeVars>>

\* ----------------------------------------------------------------- Register
\* Register as an insert that leaves an existing entry alone.
StorePeerIfAbsent(m, peerID, peer) ==
  IF m[peerID] # NoPeer THEN m ELSE [m EXCEPT ![peerID] = peer]

\* Register that appends the new candidates to the list already stored.
StorePeerMerge(m, peerID, peer) ==
  IF m[peerID] # NoPeer
    THEN [m EXCEPT ![peerID] =
            [peer EXCEPT !.Candidates =
               Slice(m[peerID].Candidates.elems \o peer.Candidates.elems)]]
    ELSE [m EXCEPT ![peerID] = peer]

\* Register that updates the stored PeerInfo in place, candidates only.
StorePeerInPlace(m, peerID, peer) ==
  IF m[peerID] # NoPeer
    THEN [m EXCEPT ![peerID] = [m[peerID] EXCEPT !.Candidates = peer.Candidates]]
    ELSE [m EXCEPT ![peerID] = peer]

\* s.peers[peerID] = peer
StorePeer(m, peerID, peer) == [m EXCEPT ![peerID] = peer]

\* delete(s.peers, peerID)
DeletePeer(m, peerID) == [m EXCEPT ![peerID] = NoPeer]

\* peer := &PeerInfo{..., Timestamp: time.Now()}
RegisterCall(w, peerID, cands) ==
  /\ wpc[w] = "idle"
  /\ nReg < MaxRegs
  /\ wPeer' = [wPeer EXCEPT ![w] = NewPeerInfo(peerID, cands, clock)]
  /\ wId' = [wId EXCEPT ![w] = peerID]
  /\ wCands' = [wCands EXCEPT ![w] = cands]
  /\ wpc' = [wpc EXCEPT ![w] = "built"]
  /\ nReg' = nReg + 1
  /\ ret' = NoRet
  /\ UNCHANGED <<ctlVars, impl, clock, peers, twin, sweepVars, closeVars>>

\* A Register call of a goroutine that uses the registry directly.
RegisterBuild(w) == \E in \in RegInputs : RegisterCall(w, in[1], in[2])

\* s.mu.Lock(); s.peers[peerID] = peer; s.mu.Unlock(); return nil.  ret keeps, beside the nil
\* error, the call's arguments, the record it stored and the map entry it overwrote.
RegisterStore(w) ==
  /\ wpc[w] = "built"
  /\ peers' = StorePeer(peers, wId[w], wPeer[w])
  /\ twin' = StorePeer(twin, wId[w], wPeer[w])
  /\ wpc' = [wpc EXCEPT ![w] = "idle"]
  /\ wPeer' = [wPeer EXCEPT ![w] = NoPeer]
  /\ wId' = [wId EXCEPT ![w] = "a"]
  /\ wCands' = [wCands EXCEPT ![w] = NilSlice]
  /\ ret' = [op |-> "register", id |-> wId[w], cands |-> wCands[w], err |-> FALSE,
             new |-> wPeer[w], old |-> peers[wId[w]]]
  /\ UNCHANGED <<ctlVars, impl, clock, nReg, sweepVars, closeVars>>

\* --------------------------------------------------------------- RemovePeer
\* s.mu.Lock(); delete(s.peers, peerID); s.mu.Unlock()
RemovePeer(id) ==
  /\ peers' = DeletePeer(peers, id)
  /\ twin' = DeletePeer(twin, id)
  /\ ret' = [op |-> "remove", id |-> id]
  /\ UNCHANGED <<ctlVars, impl, clock, regVars, sweepVars, closeVars>>

\* ------------------------------------------------------------------ GetPeer
\* GetPeer that already hides a peer whose age equals the TTL.
GetPeerTTLEarly(m, peerID, now) ==
  IF m[peerID] = NoPeer THEN [found |-> FALSE, peer |-> NoPeer]
  ELSE IF now - m[peerID].Timestamp >= peerTTL THEN [found |-> FALSE, peer |-> NoPeer]
  ELSE [found |-> TRUE, peer |-> m[peerID]]

\* part_000: peer, exists := s.peers[peerID]; nil,false if absent or if
\* time.Since(peer.Timestamp) > peerTTL
GetPeerTTL(m, peerID, now) ==
  IF m[peerID] = NoPeer THEN [found |-> FALSE, peer |-> NoPeer]
  ELSE IF Expired(now, m[peerID]) THEN [found |-> FALSE, peer |-> NoPeer]
  ELSE [found |-> TRUE, peer |-> m[peerID]]

\* pkg/signaling/server.go: peer, exists := s.peers[peerID]; return peer, exists
GetPeerPlain(m, peerID) == [found |-> m[peerID] # NoPeer, peer |-> m[peerID]]

GetPeer(id) ==
  /\ impl = "ttl"
  /\ LET r == GetPeerTTL(peers, id, clock)
     IN ret' = [op |-> "get", id |-> id, found |-> r.found, peer |-> r.peer]
  /\ UNCHANGED <<ctlVars, impl, clock, peers, twin, regVars, sweepVars, closeVars>>

GetPeerNoTTL(id) ==
  /\ impl = "plain"
  /\ LET r == GetPeerPlain(peers, id)
     IN ret' = [op |-> "get", id |-> id, found |-> r.found, peer |-> r.peer]
  /\ UNCHANGED <<ctlVars, impl, clock, peers, twin, regVars, sweepVars, closeVars>>

\* -------------------------------------------------------------- GetAllPeers
\* The orders in which a range over the map can append the peers of S.
Orders(S) ==
  {s \in [1..Cardinality(S) -> S] : \A i, j \in 1..Cardinality(S) : i # j => s[i] # s[j]}

Stored(m) == {m[id] : id \in {k \in DOMAIN m : m[k] # NoPeer}}

\* part_000: the peers with now.Sub(peer.Timestamp) <= peerTTL
GetAllPeersTTL(m, now) == {p \in Stored(m) : Live(now, p)}

\* pkg/signaling/server.go: every peer of the map
GetAllPeersPlain(m) == Stored(m)

GetAllPeers ==
  /\ impl = "ttl"
  /\ \E l \in Orders(GetAllPeersTTL(peers, clock)) : ret' = [op |-> "list", list |-> l]
  /\ UNCHANGED <<ctlVars, impl, clock, peers, twin, regVars, sweepVars, closeVars>>

GetAllPeersNoTTL ==
  /\ impl = "plain"
  /\ \E l \in Orders(GetAllPeersPlain(peers)) : ret' = [op |-> "list", list |-> l]
  /\ UNCHANGED <<ctlVars, impl, clock, peers, twin, regVars, sweepVars, closeVars>>

\* ---------------------------------------------------------------- PeerCount
\* part_000: count++ for every peer with now.Sub(peer.Timestamp) <= peerTTL
PeerCountTTL(m, now) == Cardinality({id \in DOMAIN m : m[id] # NoPeer /\ Live(now, m[id])})

\* pkg/signaling/server.go: len(s.peers)
PeerCountPlain(m) == Cardinality({id \in DOMAIN m : m[id] # NoPeer})

PeerCount ==
  /\ impl = "ttl"
  /\ ret' = [op |-> "count", count |-> PeerCountTTL(peers, clock)]
  /\ UNCHANGED <<ctlVars, impl, clock, peers, twin, regVars, sweepVars, closeVars>>

PeerCountNoTTL ==
  /\ impl = "plain"
  /\ ret' = [op |-> "count", count |-> PeerCountPlain(peers)]
  /\ UNCHANGED <<ctlVars, impl, clock, peers, twin, regVars, sweepVars, closeVars>>

\* -------------------------------------------------------------- cleanupLoop
\* A sweep that already deletes a peer whose age equals the TTL.
CleanupExpiredEarly(m, now) ==
  [id \in DOMAIN m |->
     IF m[id] # NoPeer /\ now - m[id].Timestamp >= peerTTL THEN NoPeer ELSE m[id]]

\* A sweep that deletes what is older than the sweep interval.
CleanupExpiredStale(m, now) ==
  [id \in DOMAIN m |->
     IF m[id] # NoPeer /\ now - m[id].Timestamp > cleanupInterval THEN NoPeer ELSE m[id]]

\* for id, peer := range s.peers { if now.Sub(peer.Timestamp) > peerTTL { delete(s.peers, id) } }
CleanupExpired(m, now) ==
  [id \in DOMAIN m |-> IF m[id] # NoPeer /\ Expired(now, m[id]) THEN NoPeer ELSE m[id]]

\* case <-ticker.C: s.cleanupExpired() up to now := time.Now()
SweeperTick ==
  /\ sweepPc = "select"
  /\ tickPending
  /\ tickPending' = FALSE
  /\ sweepNow' = clock
  /\ sweepPc' = "now"
  /\ ret' = NoRet
  /\ UNCHANGED <<ctlVars, impl, clock, peers, twin, regVars, closeVars>>

\* s.mu.Lock(), the range loop, the deferred s.mu.Unlock()
SweeperSweep ==
  /\ sweepPc = "now"
  /\ peers' = CleanupExpired(peers, sweepNow)
  /\ sweepPc' = "select"
  /\ sweepNow' = 0
  /\ ret' = NoRet
  /\ UNCHANGED <<ctlVars, impl, clock, twin, regVars, tickPending, closeVars>>

\* case <-s.stopCleanup: return (and the deferred ticker.Stop())
SweeperStop ==
  /\ sweepPc = "select"
  /\ stopClosed
  /\ sweepPc' = "done"
  /\ tickPending' = FALSE
  /\ ret' = NoRet
  /\ UNCHANGED <<ctlVars, impl, clock, peers, twin, regVars, sweepNow, closeVars>>

\* -------------------------------------------------------------------- Close
\* Close without the sync.Once: the function runs on every call.
OnceRunsAlways(done) == TRUE

\* s.cleanupOnce.Do(f): f runs if and only if no Do of this Once ran before
OnceRuns(done) == ~done

Close ==
  /\ impl = "ttl"
  /\ closeSignals < MaxCloses
  /\ IF OnceRuns(onceDone)
       THEN /\ stopClosed' = TRUE
            /\ panicked' = (panicked \/ stopClosed)
            /\ closeSignals' = closeSignals + 1
       ELSE UNCHANGED <<stopClosed, panicked, closeSignals>>
  /\ onceDone' = TRUE
  /\ ret' = [op |-> "close", ran |-> OnceRuns(onceDone), panic |-> panicked']
  /\ UNCHANGED <<ctlVars, impl, clock, peers, twin, regVars, sweepVars>>

\* --------------------------------------------------------------------- Next
Next ==
  \/ Tick
  \/ \E w \in Writers : RegisterBuild(w)
  \/ \E w \in Writers : RegisterStore(w)
  \/ \E id \in PeerIDs : RemovePeer(id)
  \/ \E id \in PeerIDs : GetPeer(id)
  \/ \E id \in PeerIDs : GetPeerNoTTL(id)
  \/ GetAllPeers
  \/ GetAllPeersNoTTL
  \/ PeerCount
  \/ PeerCountNoTTL
  \/ SweeperTick
  \/ SweeperSweep
  \/ SweeperStop
  \/ Close

Spec == Init /\ [][Next]_vars

\* ----------------------------------------------------------------- fairness
\* The last instant the model observes.
LastInstant == CHOOSE t \in Instants : \A u \in Instants : u <= t

\* The ticker keeps firing after the last instant the model observes.
HorizonTick ==
  /\ clock = LastInstant
  /\ sweepPc # "done"
  /\ ~tickPending
  /\ tickPending' = TRUE
  /\ ret' = NoRet
  /\ UNCHANGED <<ctlVars, impl, clock, peers, twin, regVars, sweepPc, sweepNow, closeVars>>

\* Registrations, the sweeper and Close, without the read-only calls.
LiveNext ==
  \/ Tick
  \/ HorizonTick
  \/ \E w \in Writers : RegisterBuild(w)
  \/ \E w \in Writers : RegisterStore(w)
  \/ SweeperTick
  \/ SweeperSweep
  \/ SweeperStop
  \/ Close

\* Time passes, the ticker fires, a goroutine that can take a step of the
\* sweeper or of a Register past its clock read eventually takes it.
LiveFairness ==
  /\ WF_vars(Tick)
  /\ WF_vars(HorizonTick)
  /\ WF_vars(SweeperTick)
  /\ WF_vars(SweeperSweep)
  /\ \A w \in Writers : WF_vars(RegisterStore(w))

LiveSpec == Init /\ [][LiveNext]_vars /\ LiveFairness

\* ---------------------------------------------------------------- observers
\* What GetPeer, GetAllPeers and PeerCount of the constructed implementation
\* return for map m at time now.
Get(m, id, now) == IF impl = "ttl" THEN GetPeerTTL(m, id, now) ELSE GetPeerPlain(m, id)
Listing(m, now) == IF impl = "ttl" THEN GetAllPeersTTL(m, now) ELSE GetAllPeersPlain(m)
Count(m, now) == IF impl = "ttl" THEN PeerCountTTL(m, now) ELSE PeerCountPlain(m)

\* ------------------------------------------------------------- HTTP adapter
\* The JSON values of the "candidates" member of a request or response body:
\* null, an array, or no such member.
JNull == [json |-> "null"]
JAbsent == [json |-> "absent"]
JArray(elems) == [json |-> "array", elems |-> elems]

\* json.Decoder.Decode into PeerInfo.Candidates: an array makes a non-nil
\* slice of its elements, null or a missing member leaves the slice nil.
DecodeCandidates(j) == IF j.json = "array" THEN Slice(j.elems) ELSE NilSlice

\* json.Encoder.Encode of PeerInfo.Candidates: a nil slice is written as null.
EncodeCandidates(c) == IF c.nil THEN JNull ELSE JArray(c.elems)

\* json.Encoder.Encode of a *PeerInfo
EncodePeer(p) ==
  [id |-> p.ID, candidates |-> EncodeCandidates(p.Candidates), timestamp |-> p.Timestamp]

\* The requests sent to /register: one with another method, one whose body is
\* not JSON, and bodies with an id and a list, an empty id, an empty list and
\* no list.  A body without an "id" member decodes to the id "".
Requests ==
  { [method |-> "GET", valid |-> TRUE, id |-> "a", candidates |-> JArray(<<c1>>)],
    [method |-> "POST", valid |-> FALSE, id |-> "", candidates |-> JAbsent],
    [method |-> "POST", valid |-> TRUE, id |-> "a", candidates |-> JArray(<<c1>>)],
    [method |-> "POST", valid |-> TRUE, id |-> "", candidates |-> JArray(<<c1>>)],
    [method |-> "POST", valid |-> TRUE, id |-> "b", candidates |-> JArray(<< >>)],
    [method |-> "POST", valid |-> TRUE, id |-> "b", candidates |-> JAbsent] }

\* What handleRegister answers once h.server.Register has returned err.
RegisterStatus(err) == IF err THEN 500 ELSE 200

\* handleRegister up to the clock read of h.server.Register; the goroutine goes
\* on with RegisterStore and then answers RegisterStatus.
HandleRegister(w, req) ==
  /\ wpc[w] = "idle"
  /\ IF req.method # "POST"
       THEN /\ ret' = [op |-> "http", route |-> "/register", status |-> 405]
            /\ UNCHANGED <<ctlVars, impl, clock, peers, twin, regVars, sweepVars, closeVars>>
       ELSE IF ~req.valid
         THEN /\ ret' = [op |-> "http", route |-> "/register", status |-> 400]
              /\ UNCHANGED <<ctlVars, impl, clock, peers, twin, regVars, sweepVars, closeVars>>
         ELSE RegisterCall(w, req.id, DecodeCandidates(req.candidates))

\* handleGetPeer
HandleGetPeer(id) ==
  /\ LET r == Get(peers, id, clock)
     IN ret' = IF id = "" THEN [op |-> "http", route |-> "/peer", status |-> 400]
               ELSE IF ~r.found THEN [op |-> "http", route |-> "/peer", status |-> 404]
               ELSE [op |-> "http", route |-> "/peer", status |-> 200,
                     body |-> EncodePeer(r.peer)]
  /\ UNCHANGED <<ctlVars, impl, clock, peers, twin, regVars, sweepVars, closeVars>>

\* handleListPeers
HandleListPeers ==
  /\ \E l \in Orders(Listing(peers, clock)) :
       ret' = [op |-> "http", route |-> "/peers", status |-> 200,
               body |-> [i \in 1..Len(l) |-> EncodePeer(l[i])]]
  /\ UNCHANGED <<ctlVars, impl, clock, peers, twin, regVars, sweepVars, closeVars>>

\* The signaling server process: the three routes and, in the registry with
\* TTL eviction, the sweeper; nothing calls RemovePeer, PeerCount or Close.
HttpNext ==
  \/ Tick
  \/ \E w \in Writers, req \in Requests : HandleRegister(w, req)
  \/ \E w \in Writers : RegisterStore(w)
  \/ \E id \in Keys : HandleGetPeer(id)
  \/ HandleListPeers
  \/ SweeperTick
  \/ SweeperSweep

HttpSpec == Init /\ [][HttpNext]_vars

\* ========================================================== peer controller
\* One p2pquic.Peer and the calls an application makes on it.  The registry
\* is a remote process reached over HTTP: what it answers is an input here.
registryVars == <<impl, clock, peers, twin, regVars, sweepVars, closeVars>>

\* Controller method calls made in one behaviour, and UDP sockets created.
MaxCalls == 4
MaxSocks == 2

\* The configurations NewPeer is called with.
Configs ==
  { [PeerID |-> "", LocalPort |-> 9001, SignalingURL |-> "http://sig:8080", EnableSTUN |-> FALSE],
    [PeerID |-> "a", LocalPort |-> 0, SignalingURL |-> "", EnableSTUN |-> FALSE],
    [PeerID |-> "a", LocalPort |-> 9001, SignalingURL |-> "http://sig:8080", EnableSTUN |-> TRUE],
    [PeerID |-> "a", LocalPort |-> -1, SignalingURL |-> "http://sig:8080", EnableSTUN |-> FALSE],
    [PeerID |-> "a", LocalPort |-> 70000, SignalingURL |-> "http://sig:8080", EnableSTUN |-> FALSE] }

\* A candidate whose address does not resolve.
cBad == [IP |-> "no.such.host", Port |-> 9002]

\* net.ResolveUDPAddr("udp4", "IP:Port")
Resolves(c) == c.IP \in {c1.IP, c2.IP} /\ c.Port \in 0..65535

\* The candidate lists given to Connect with WithCandidates (none: the list is
\* fetched from the registry), and the lists the registry answers with.
ConnectLists == {<< >>, <<c1>>, <<c1, c2>>, <<cBad, c2>>}
RemoteLists == {JNull, JArray(<<c2>>)}

\* ------------------------------------------------------------------ NewPeer
\* if config.LocalPort == 0 { config.LocalPort = 9000 }, and the same for the URL
FillDefaults(cfg) ==
  [cfg EXCEPT !.LocalPort = IF cfg.LocalPort = 0 THEN 9000 ELSE cfg.LocalPort,
              !.SignalingURL = IF cfg.SignalingURL = "" THEN "http://localhost:8080"
                               ELSE cfg.SignalingURL]

NewPeer(cfg) ==
  /\ ~constructed
  /\ nCalls < MaxCalls
  /\ nCalls' = nCalls + 1
  /\ IF cfg.PeerID = ""
       THEN /\ ret' = [op |-> "Peer.NewPeer", err |-> TRUE, cfg |-> cfg]
            /\ UNCHANGED <<cfgVars, sockVars, connVars>>
       ELSE /\ constructed' = TRUE
            /\ config' = FillDefaults(cfg)
            /\ ret' = [op |-> "Peer.NewPeer", err |-> FALSE, cfg |-> cfg]
            /\ UNCHANGED <<candidates, discovered, closeCalled, sockVars, connVars>>
  /\ UNCHANGED <<registryVars, cancelled, punchVars>>

\* ------------------------------------------------------- DiscoverCandidates
\* An append that puts the new elements in front.
AppendSliceFront(s, elems) ==
  IF s.nil /\ elems = << >> THEN NilSlice ELSE Slice(elems \o s.elems)

\* append(s, elems...): appending nothing to a nil slice leaves it nil.
AppendSlice(s, elems) ==
  IF s.nil /\ elems = << >> THEN NilSlice ELSE Slice(s.elems \o elems)

\* The port the socket n was bound to.
SockPort(n) == socks[n].port

\* What the STUN probe and the interface enumeration can produce: the probe
\* fails or finds one public address; there are no or one local IPv4 address.
StunResults == {"", "203.0.113.7"}
LocalAddrs == {<< >>, <<"192.168.1.5">>}

DiscoverCandidates ==
  /\ constructed
  /\ nCalls < MaxCalls
  /\ nCalls' = nCalls + 1
  /\ \E stun \in StunResults, addrs \in LocalAddrs :
       LET localPort == IF udpConn # 0 THEN SockPort(udpConn) ELSE config.LocalPort
           stunCands == IF config.EnableSTUN /\ stun # ""
                          THEN <<[IP |-> stun, Port |-> localPort]>> ELSE << >>
           localCands == [i \in 1..Len(addrs) |-> [IP |-> addrs[i], Port |-> localPort]]
           result == AppendSlice(AppendSlice(NilSlice, stunCands), localCands)
       IN /\ candidates' = result
          /\ ret' = [op |-> "Peer.DiscoverCandidates", err |-> FALSE, list |-> result,
                     stun |-> stun, addrs |-> addrs]
  /\ discovered' = TRUE
  /\ UNCHANGED <<constructed, config, closeCalled, sockVars, connVars, registryVars, cancelled, punchVars>>

\* ------------------------------------------------------------ Peer.Register
\* Register that pushes whatever list it holds.
NoCandidatesNever(c) == FALSE

\* len(p.candidates) == 0
NoCandidates(c) == Len(c.elems) = 0

\* No request went out.
NoRequest == [route |-> "none"]

\* SignalingClient.Register: the body of the POST to /register
RegisterRequest(peerID, cands) ==
  [route |-> "/register", id |-> peerID, candidates |-> EncodeCandidates(cands)]

PeerRegister ==
  /\ constructed
  /\ nCalls < MaxCalls
  /\ nCalls' = nCalls + 1
  /\ IF NoCandidates(candidates)
       THEN ret' = [op |-> "Peer.Register", err |-> TRUE, sent |-> NoRequest]
       ELSE \E status \in {200, 500} :
              ret' = [op |-> "Peer.Register", err |-> (status # 200),
                      sent |-> RegisterRequest(config.PeerID, candidates)]
  /\ UNCHANGED <<cfgVars, sockVars, connVars, registryVars, cancelled, punchVars>>

\* ------------------------------------------------------------------- Listen
\* net.ListenUDP("udp4", port): fails for a port out of range and for a port
\* an open socket of this process is bound to; otherwise it binds or fails.
BindOutcomes(port) ==
  IF port \notin 0..65535 \/ \E n \in 1..Len(socks) : socks[n].open /\ socks[n].port = port
    THEN {FALSE} ELSE {TRUE, FALSE}

NewSock(port) == [port |-> port, open |-> TRUE, closes |-> 0]

\* udpConn.Close()
CloseSock(ss, n) == [ss EXCEPT ![n].open = FALSE, ![n].closes = @ + 1]

Listen ==
  /\ constructed
  /\ nCalls < MaxCalls
  /\ Len(socks) < MaxSocks
  /\ nCalls' = nCalls + 1
  /\ \E bound \in BindOutcomes(config.LocalPort), started \in BOOLEAN :
       IF ~bound
         THEN /\ udpConn' = 0
              /\ ret' = [op |-> "Peer.Listen", err |-> TRUE]
              /\ UNCHANGED <<quicListener, socks, lsnrs>>
         ELSE LET n == Len(socks) + 1
                  ss == Append(socks, NewSock(config.LocalPort))
              IN /\ udpConn' = n
                 /\ IF started
                      THEN /\ socks' = ss
                           /\ lsnrs' = Append(lsnrs, [sock |-> n, open |-> TRUE])
                           /\ quicListener' = Len(lsnrs) + 1
                           /\ ret' = [op |-> "Peer.Listen", err |-> FALSE]
                      ELSE /\ socks' = CloseSock(ss, n)
                           /\ quicListener' = 0
                           /\ ret' = [op |-> "Peer.Listen", err |-> TRUE]
                           /\ UNCHANGED lsnrs
  /\ UNCHANGED <<cfgVars, connVars, registryVars, cancelled, punchVars>>

\* ------------------------------------------------------------------- Accept
\* Accept returns a session, or the error of the listener's Accept (cancelled
\* context; a closed listener only returns its error).
Accept ==
  /\ constructed
  /\ nCalls < MaxCalls
  /\ nCalls' = nCalls + 1
  /\ IF quicListener = 0
       THEN ret' = [op |-> "Peer.Accept", err |-> TRUE, delegated |-> FALSE, listener |-> 0]
       ELSE \E failed \in (IF lsnrs[quicListener].open THEN {TRUE, FALSE} ELSE {TRUE}) :
              ret' = [op |-> "Peer.Accept", err |-> failed, delegated |-> TRUE,
                      listener |-> quicListener]
  /\ UNCHANGED <<cfgVars, sockVars, connVars, registryVars, cancelled, punchVars>>

\* --------------------------------------------------------------- Peer.Close
\* Closing a net.UDPConn that is already closed returns an error.
PeerClose ==
  /\ constructed
  /\ nCalls < MaxCalls
  /\ nCalls' = nCalls + 1
  /\ lsnrs' = IF quicListener # 0 THEN [lsnrs EXCEPT ![quicListener].open = FALSE] ELSE lsnrs
  /\ IF udpConn # 0
       THEN /\ socks' = CloseSock(socks, udpConn)
            /\ ret' = [op |-> "Peer.Close", err |-> ~socks[udpConn].open]
       ELSE /\ ret' = [op |-> "Peer.Close", err |-> FALSE]
            /\ UNCHANGED socks
  /\ closeCalled' = TRUE
  /\ UNCHANGED <<constructed, config, candidates, discovered, udpConn, quicListener,
                 connVars, registryVars, cancelled, punchVars>>

\* ------------------------------------------------------------------ Connect
\* holePunch's inner loop that stops one send early.
PunchLoopDoneEarly(i) == ~(i < 4)

\* for i := 0; i < 5; i++: the loop is over at i
PunchLoopDone(i) == ~(i < 5)

\* The socket n is open (WriteToUDP and quic.Dial fail on nil and on a closed socket).
SockOpen(n) == n # 0 /\ socks[n].open

\* holePunch that gives up at the first send that fails.
PunchFailsOnSendError(sent) == ~sent

\* holePunch returns an error after a WriteToUDP with result sent: never, a
\* failed send is logged and the loop goes on.
PunchFails(sent) == FALSE

\* connectQUIC that dials the first candidate again and again.
DialTargetFirst(cands, i) == cands[1]

\* for _, candidate := range remoteCandidates: the candidate of iteration i
DialTarget(cands, i) == cands[i]

\* Connect up to the call of holePunch: the candidates given or fetched with
\* signalingClient.GetPeer, then the socket if there is none.
ConnectStart(given) ==
  /\ constructed
  /\ cpc = "idle"
  /\ nCalls < MaxCalls
  /\ udpConn # 0 \/ Len(socks) < MaxSocks
  /\ nCalls' = nCalls + 1
  /\ \E fetched \in BOOLEAN, remote \in RemoteLists, bound \in BindOutcomes(config.LocalPort) :
       LET cands == IF Len(given) > 0 THEN Slice(given) ELSE DecodeCandidates(remote)
       IN IF Len(given) = 0 /\ ~fetched
            THEN /\ ret' = [op |-> "Peer.Connect", err |-> TRUE, conn |-> NoPeer]
                 /\ UNCHANGED <<sockVars, connVars>>
          ELSE IF udpConn = 0 /\ ~bound
            THEN /\ ret' = [op |-> "Peer.Connect", err |-> TRUE, conn |-> NoPeer]
                 /\ UNCHANGED <<sockVars, connVars>>
          ELSE /\ IF udpConn = 0
                    THEN /\ socks' = Append(socks, NewSock(config.LocalPort))
                         /\ udpConn' = Len(socks) + 1
                    ELSE UNCHANGED <<socks, udpConn>>
               /\ cpc' = "punch"
               /\ cCands' = cands
               /\ ci' = 1
               /\ ck' = 0
               /\ trace' = << >>
               /\ ret' = NoRet
               /\ UNCHANGED <<quicListener, lsnrs>>
  /\ UNCHANGED <<cfgVars, registryVars, cancelled, punchVars>>

\* holePunch, one iteration of the inner loop (a WriteToUDP and the 100 ms
\* sleep), the skip of a candidate that does not resolve, or the return.
PunchStep ==
  /\ cpc = "punch"
  /\ IF ci > Len(cCands.elems)
       THEN /\ cpc' = "sleep"
            /\ UNCHANGED <<ci, ck, trace>>
     ELSE IF ~Resolves(cCands.elems[ci])
       THEN /\ ci' = ci + 1
            /\ UNCHANGED <<cpc, ck, trace>>
     ELSE /\ trace' = Append(trace, [ev |-> "PUNCH", to |-> cCands.elems[ci],
                                      sock |-> udpConn, ok |-> SockOpen(udpConn)])
          /\ IF PunchLoopDone(ck + 1)
               THEN ci' = ci + 1 /\ ck' = 0
               ELSE ci' = ci /\ ck' = ck + 1
          /\ cpc' = IF PunchFails(SockOpen(udpConn)) THEN "idle" ELSE cpc
  /\ ret' = IF cpc' = "idle" THEN [op |-> "Peer.Connect", err |-> TRUE, conn |-> NoPeer]
            ELSE NoRet
  /\ UNCHANGED <<cfgVars, sockVars, cCands, nCalls, registryVars, cancelled, punchVars>>

\* time.Sleep(2 * time.Second), then connectQUIC starts its loop
ConnectSleep ==
  /\ cpc = "sleep"
  /\ cpc' = "dial"
  /\ ci' = 1
  /\ ret' = NoRet
  /\ UNCHANGED <<cfgVars, sockVars, cCands, ck, trace, nCalls, registryVars, cancelled, punchVars>>

\* connectQUIC, one candidate: skipped if it does not resolve, else quic.Dial
\* on p.udpConn; the first dial that succeeds is returned, after the last
\* candidate the error.
DialStep ==
  /\ cpc = "dial"
  /\ IF ci > Len(cCands.elems)
       THEN /\ ret' = [op |-> "Peer.Connect", err |-> TRUE, conn |-> NoPeer]
            /\ cpc' = "idle"
            /\ ci' = 0
            /\ cCands' = NilSlice
            /\ UNCHANGED trace
     ELSE IF ~Resolves(DialTarget(cCands.elems, ci))
       THEN /\ ci' = ci + 1
            /\ ret' = NoRet
            /\ UNCHANGED <<cpc, cCands, trace>>
     ELSE \E dialed \in (IF SockOpen(udpConn) THEN {TRUE, FALSE} ELSE {FALSE}) :
            /\ trace' = Append(trace, [ev |-> "DIAL", to |-> DialTarget(cCands.elems, ci),
                                        sock |-> udpConn, ok |-> dialed])
            /\ IF dialed
                 THEN /\ ret' = [op |-> "Peer.Connect", err |-> FALSE,
                                 conn |-> [to |-> DialTarget(cCands.elems, ci),
                                           sock |-> udpConn]]
                      /\ cpc' = "idle"
                      /\ ci' = 0
                      /\ cCands' = NilSlice
                 ELSE /\ ci' = ci + 1
                      /\ ret' = NoRet
                      /\ UNCHANGED <<cpc, cCands>>
  /\ UNCHANGED <<cfgVars, sockVars, ck, nCalls, registryVars, cancelled, punchVars>>

\* ------------------------------------------------------------- cancellation
\* The application cancels the context it holds (the one it passes to Accept
\* and to ContinuousHolePunch; Connect takes none).
Cancel ==
  /\ ~cancelled
  /\ cancelled' = TRUE
  /\ UNCHANGED <<cfgVars, sockVars, connVars, nCalls, punchVars, registryVars, ret>>

\* ------------------------------------------------------ ContinuousHolePunch
\* Ticks the 5 s ticker delivers in one behaviour.
MaxTicks == 2

\* The Register calls other processes make at the registry.
PunchRegInputs ==
  {<<"a", Slice(<<c1>>)>>, <<"b", Slice(<<cBad, c2>>)>>}

\* The configurations of the controller: STUN plays no part in the punching.
PunchConfigs == {cfg \in Configs : ~cfg.EnableSTUN}

\* A Register call of another peer, from the reading of the clock to the
\* return, with no step of this process in between.
RemoteRegister ==
  /\ nReg < MaxRegs
  /\ nReg' = nReg + 1
  /\ \E in \in PunchRegInputs :
       LET peer == NewPeerInfo(in[1], in[2], clock)
       IN /\ peers' = StorePeer(peers, in[1], peer)
          /\ twin' = StorePeer(twin, in[1], peer)
          /\ ret' = [op |-> "register", id |-> in[1], cands |-> in[2], err |-> FALSE,
                     new |-> peer, old |-> peers[in[1]]]
  /\ UNCHANGED <<ctlVars, impl, clock, wpc, wPeer, wId, wCands, sweepVars, closeVars>>

\* ticker := time.NewTicker(5 * time.Second)
punchInterval == 5

\* json.Decoder.Decode into a PeerInfo
DecodePeer(j) ==
  [ID |-> j.id, Candidates |-> DecodeCandidates(j.candidates), Timestamp |-> j.timestamp]

\* A loop that punches the own entry too.
SkipPeerNever(id, self) == FALSE

\* if peer.ID == p.config.PeerID { continue }
SkipPeer(id, self) == id = self

\* ContinuousHolePunch up to the select: it returns at once without a socket.
ContinuousHolePunch ==
  /\ constructed
  /\ hpc = "idle"
  /\ nCalls < MaxCalls
  /\ nCalls' = nCalls + 1
  /\ IF udpConn = 0
       THEN /\ ret' = [op |-> "Peer.ContinuousHolePunch", running |-> FALSE, tick |-> FALSE]
            /\ UNCHANGED punchVars
       ELSE /\ hpc' = "wait"
            /\ knownPeers' = {}
            /\ ret' = [op |-> "Peer.ContinuousHolePunch", running |-> TRUE, tick |-> FALSE]
            /\ UNCHANGED <<hTickPending, hTicks, hPeers, hi, hj, hNew, hTrace>>
  /\ UNCHANGED <<cfgVars, sockVars, connVars, cancelled, registryVars>>

\* A tick period passes and the ticker delivers a tick; ticker.C holds one
\* tick and drops the others.  A task that waits at the select with the
\* context done returns before the period is over.
HolePunchTickerFires ==
  /\ hpc \in {"wait", "send"}
  /\ ~(hpc = "wait" /\ cancelled)
  /\ hTicks < MaxTicks
  /\ hTicks' = hTicks + 1
  /\ clock' = clock + punchInterval
  /\ hTickPending' = TRUE
  /\ ret' = NoRet
  /\ UNCHANGED <<cfgVars, sockVars, connVars, nCalls, cancelled, hpc, hPeers, hi, hj, hNew,
                 knownPeers, hTrace, impl, peers, twin, regVars, sweepVars, closeVars>>

\* case <-ticker.C: and signalingClient.GetAllPeers(): GET /peers, answered by
\* handleListPeers, and the decoding of the body; on an error the loop goes
\* back to the select.
HolePunchTick ==
  /\ hpc = "wait"
  /\ hTickPending
  /\ hTickPending' = FALSE
  /\ hTrace' = << >>
  /\ \E fetched \in BOOLEAN, l \in Orders(Listing(peers, clock)) :
       IF ~fetched
         THEN /\ ret' = [op |-> "Peer.GetAllPeers", err |-> TRUE, ids |-> {}]
              /\ hPeers' = << >>
              /\ UNCHANGED <<hpc, hi, hj>>
         ELSE /\ hPeers' = [i \in 1..Len(l) |-> DecodePeer(EncodePeer(l[i]))]
              /\ ret' = [op |-> "Peer.GetAllPeers", err |-> FALSE,
                         ids |-> {l[i].ID : i \in 1..Len(l)}]
              /\ hpc' = "send"
              /\ hi' = 1
              /\ hj' = 0
  /\ UNCHANGED <<cfgVars, sockVars, connVars, nCalls, cancelled, hTicks, hNew, knownPeers,
                 registryVars>>

\* One step of the loops over the listing: the test of the peer's id and the
\* update of knownPeers (hj = 0), the skip of a candidate that does not
\* resolve, a WriteToUDP, or the end of a loop.
HolePunchSend ==
  /\ hpc = "send"
  /\ IF hi > Len(hPeers)
       THEN /\ hpc' = "wait"
            /\ ret' = [op |-> "Peer.ContinuousHolePunch", running |-> TRUE, tick |-> TRUE]
            /\ UNCHANGED <<hi, hj, hNew, knownPeers, hTrace>>
     ELSE IF hj = 0
       THEN /\ IF SkipPeer(hPeers[hi].ID, config.PeerID)
                 THEN /\ hi' = hi + 1
                      /\ UNCHANGED <<hj, hNew, knownPeers>>
                 ELSE /\ hNew' = (hPeers[hi].ID \notin knownPeers)
                      /\ knownPeers' = knownPeers \cup {hPeers[hi].ID}
                      /\ hj' = 1
                      /\ UNCHANGED hi
            /\ ret' = NoRet
            /\ UNCHANGED <<hpc, hTrace>>
     ELSE IF hj > Len(hPeers[hi].Candidates.elems)
       THEN /\ hi' = hi + 1
            /\ hj' = 0
            /\ ret' = NoRet
            /\ UNCHANGED <<hpc, hNew, knownPeers, hTrace>>
     ELSE /\ IF Resolves(hPeers[hi].Candidates.elems[hj])
               THEN hTrace' = Append(hTrace, [ev |-> "PUNCH", pi |-> hi, cj |-> hj,
                                              to |-> hPeers[hi].Candidates.elems[hj],
                                              new |-> hNew,
                                              sock |-> udpConn, ok |-> SockOpen(udpConn)])
               ELSE UNCHANGED hTrace
          /\ hj' = hj + 1
          /\ ret' = NoRet
          /\ UNCHANGED <<hpc, hi, hNew, knownPeers>>
  /\ UNCHANGED <<cfgVars, sockVars, connVars, nCalls, cancelled, hTickPending, hTicks, hPeers,
                 registryVars>>

\* case <-ctx.Done(): return (and the deferred ticker.Stop())
HolePunchStop ==
  /\ hpc = "wait"
  /\ cancelled
  /\ hpc' = "done"
  /\ hTickPending' = FALSE
  /\ ret' = [op |-> "Peer.ContinuousHolePunch", running |-> FALSE, tick |-> FALSE]
  /\ UNCHANGED <<cfgVars, sockVars, connVars, nCalls, cancelled, hTicks, hPeers, hi, hj, hNew,
                 knownPeers, hTrace, registryVars>>

\* ---------------------------------------------------------------- PeerNext
PeerInit == Init /\ impl = "ttl"

PeerNext ==
  \/ \E cfg \in Configs : NewPeer(cfg)
  \/ DiscoverCandidates
  \/ PeerRegister
  \/ Listen
  \/ Accept
  \/ PeerClose
  \/ \E given \in ConnectLists : ConnectStart(given)
  \/ PunchStep
  \/ ConnectSleep
  \/ DialStep
  \/ Cancel

PeerSpec == PeerInit /\ [][PeerNext]_vars

\* A controller that listens and runs ContinuousHolePunch, as runServer does,
\* the application that closes it or cancels its context, and the registry the
\* other peers register at (part_000).
PunchNext ==
  \/ \E cfg \in PunchConfigs : NewPeer(cfg)
  \/ Listen
  \/ PeerClose
  \/ Cancel
  \/ ContinuousHolePunch
  \/ HolePunchTickerFires
  \/ HolePunchTick
  \/ HolePunchSend
  \/ HolePunchStop
  \/ RemoteRegister

PunchSpec == PeerInit /\ [][PunchNext]_vars

\* ============================================================== properties
\* The step is the critical section of writer w's Register, of a RemovePeer(id).
RegisterStores(w) == wpc[w] = "built" /\ wpc'[w] = "idle"
RemoveDeletes(id) == ret'.op = "remove" /\ ret'.id = id

\* The PeerInfo records stored whose ID field is id.
RecordsOf(m, id) == {k \in PeerIDs : m[k] # NoPeer /\ m[k].ID = id}

\* ----------------------------------------------------------------------- C1
OnePeerInfoPerId == \A id \in PeerIDs : Cardinality(RecordsOf(peers, id)) <= 1

ReplacesInOneStep ==
  \A w \in Writers :
    RegisterStores(w) =>
      /\ peers'[wId[w]] = wPeer[w]
      /\ RecordsOf(peers', wId[w]) = {wId[w]}
      /\ \A id \in PeerIDs \ {wId[w]} : peers'[id] = peers[id]

\* C1: in every reachable state at most one PeerInfo is stored per peer-id, and
\* the critical section of a Register replaces the record of its id in one step:
\* after it exactly the new record is stored for that id, never the old one,
\* both or neither.
C1_OneRecordAtomicReplace == []OnePeerInfoPerId /\ [][ReplacesInOneStep]_vars

\* A Register has just replaced a different record of the same id.
C1_Witness ==
  /\ ret.op = "register"
  /\ ret.old # NoPeer
  /\ ret.old # ret.new
  /\ peers[ret.id] = ret.new

\* ----------------------------------------------------------------------- C2
\* C2: no expired entry is observed: a get of an id whose stored record is older
\* than the TTL returns not-found, and a list contains no record older than the TTL.
C2_NoExpiredObserved ==
  /\ (ret.op = "get" /\ peers[ret.id] # NoPeer /\ clock - peers[ret.id].Timestamp > peerTTL)
       => ~ret.found
  /\ ret.op = "list" =>
       \A i \in 1..Len(ret.list) : clock - ret.list[i].Timestamp <= peerTTL

\* C2 restricted to the registry with TTL eviction (impl = "ttl"), where it holds.
C2_NoExpiredObservedTTL == impl = "ttl" => C2_NoExpiredObserved

\* ----------------------------------------------------------------------- C3
StoredStaysThroughTTL ==
  \A id \in PeerIDs :
    ( /\ peers[id] # NoPeer
      /\ clock' - peers[id].Timestamp <= peerTTL
      /\ ~ \E w \in Writers : wId[w] = id /\ RegisterStores(w)
      /\ ~ RemoveDeletes(id) )
    => peers'[id] = peers[id]

GetReturnsLiveRecord ==
  (ret.op = "get" /\ peers[ret.id] # NoPeer /\ clock - peers[ret.id].Timestamp <= peerTTL)
    => (ret.found /\ ret.peer = peers[ret.id])

\* C3: a stored record p stays stored through every step that is not the
\* critical section of a Register or RemovePeer for p.ID while the time is at
\* most p.Timestamp + peerTTL (sweeps included), and a get at such a time,
\* the bound included, returns p.
C3_LiveWindow == []GetReturnsLiveRecord /\ [][StoredStaysThroughTTL]_vars

\* A get at exactly Timestamp + peerTTL, after the sweeper has swept, found the peer.
C3_Witness ==
  /\ ret.op = "get"
  /\ ret.found
  /\ clock - ret.peer.Timestamp = peerTTL
  /\ impl = "ttl"
  /\ sweepPc = "select"
  /\ ~tickPending

\* ----------------------------------------------------------------------- C4
ExactlySubmitted ==
  ret.op = "register" =>
    /\ peers[ret.id].Candidates = ret.cands
    /\ Get(peers, ret.id, clock).found => Get(peers, ret.id, clock).peer.Candidates = ret.cands
    /\ (ret.old # NoPeer /\ ret.old # ret.new) =>
         /\ Get(peers, ret.id, clock).peer # ret.old
         /\ ret.old \notin Listing(peers, clock)

OnlyRegisterMakesVisible ==
  \A id \in PeerIDs :
    \/ peers'[id] = peers[id]
    \/ peers'[id] = NoPeer
    \/ \E w \in Writers : RegisterStores(w) /\ wId[w] = id /\ peers'[id] = wPeer[w]

\* C4: right after a Register(id, C) the record stored for id carries exactly
\* the list C (no merge with the list stored before), a get that finds id
\* returns C, the record it overwrote is returned neither by get nor by list,
\* and in every later step the record visible for an id is the one visible
\* before, none, or the one a Register stores in that step.
C4_StrictReplace == []ExactlySubmitted /\ [][OnlyRegisterMakesVisible]_vars

\* A Register has replaced a record with another candidate list and get finds it.
C4_Witness ==
  /\ ret.op = "register"
  /\ ret.old # NoPeer
  /\ ret.old.Candidates # ret.cands
  /\ Len(ret.old.Candidates.elems) > 0
  /\ Get(peers, ret.id, clock).found

\* ----------------------------------------------------------------------- C5
\* C5: the record a Register stores is never older than the record it replaces
\* (the call received later by the wall clock wins).
C5_LaterArrivalWins ==
  (ret.op = "register" /\ ret.old # NoPeer) => ret.new.Timestamp >= ret.old.Timestamp

\* ----------------------------------------------------------------------- C6
\* A Register call for id is in flight: built, not yet stored.
InFlight(w, id) == wpc[w] = "built" /\ wId[w] = id

GetSeesWholeRecord ==
  (ret.op = "get" /\ ret.found) =>
    /\ ret.peer = peers[ret.id]
    /\ ret.peer.ID = ret.id

StoreIsWhole ==
  \A w \in Writers :
    RegisterStores(w) =>
      LET post == Get(peers', wId[w], clock')
      IN post.found => post.peer = NewPeerInfo(wId[w], wCands[w], wPeer[w].Timestamp)

\* C6: a get that finds a peer returns the whole record stored under the id;
\* the step in which a Register stores makes
\* get return, if anything, the complete record of that call (its id, its full
\* candidate list, its timestamp), so a get sees the state before or after it.
C6_GetPreOrPost == []GetSeesWholeRecord /\ [][StoreIsWhole]_vars

\* A get ran while a Register for the same id was in flight and returned the
\* record stored before it.
C6_Witness ==
  /\ ret.op = "get"
  /\ ret.found
  /\ \E w \in Writers : InFlight(w, ret.id) /\ wPeer[w] # ret.peer

\* ----------------------------------------------------------------------- C7
ExpiredStored(id) == peers[id] # NoPeer /\ clock - peers[id].Timestamp > peerTTL

\* C7: while the registry is not closed, every stored record older than the TTL
\* is eventually no longer held by the map.
C7_ExpiredEventuallyDeleted ==
  \A id \in PeerIDs :
    (ExpiredStored(id) /\ ~stopClosed) ~> (~ExpiredStored(id) \/ stopClosed)

\* C7 restricted to the registry with TTL eviction (impl = "ttl"), where it holds.
C7_ExpiredEventuallyDeletedTTL ==
  \A id \in PeerIDs :
    (impl = "ttl" /\ ExpiredStored(id) /\ ~stopClosed) ~> (~ExpiredStored(id) \/ stopClosed)

\* ----------------------------------------------------------------------- C8
\* C8: what get, list and count return from the registry whose sweeper runs is
\* what they return, at the same time, from the twin registry that was given
\* the same Register and RemovePeer calls and is never swept.
C8_SweeperNotObservable ==
  /\ \A id \in PeerIDs : Get(peers, id, clock) = Get(twin, id, clock)
  /\ Listing(peers, clock) = Listing(twin, clock)
  /\ Count(peers, clock) = Count(twin, clock)
  /\ ret.op = "get" => [found |-> ret.found, peer |-> ret.peer] = Get(twin, ret.id, clock)
  /\ ret.op = "list" => {ret.list[i] : i \in 1..Len(ret.list)} = Listing(twin, clock)
  /\ ret.op = "count" => ret.count = Count(twin, clock)

\* A get of an id whose record the sweeper has deleted and the twin still holds.
C8_Witness ==
  /\ ret.op = "get"
  /\ peers[ret.id] = NoPeer
  /\ twin[ret.id] # NoPeer

\* ----------------------------------------------------------------------- C9
SignalledOnce ==
  /\ closeSignals <= 1
  /\ ~panicked
  /\ ret.op = "close" => (~ret.panic /\ stopClosed /\ closeSignals = 1)

LaterCloseIsNoOp ==
  /\ onceDone => UNCHANGED <<stopClosed, closeSignals, panicked>>
  /\ sweepPc = "done" =>
       /\ sweepPc' = "done"
       /\ peers' # peers =>
            \/ \E w \in Writers : RegisterStores(w)
            \/ \E id \in PeerIDs : RemoveDeletes(id)

\* C9: over any number of Close calls stopCleanup is closed exactly once and no
\* call panics; a Close after the first changes nothing; once the sweeper has
\* taken the stop case it never sweeps again.
C9_CloseIdempotent == []SignalledOnce /\ [][LaterCloseIsNoOp]_vars

\* A second Close has returned after the sweeper stopped.
C9_Witness ==
  /\ ret.op = "close"
  /\ ~ret.ran
  /\ sweepPc = "done"

\* ---------------------------------------------------------------------- C10
CountsLiveOnly ==
  ret.op = "count" =>
    /\ ret.count = Cardinality({id \in PeerIDs : peers[id] # NoPeer /\ ~ExpiredStored(id)})
    /\ ret.count = Cardinality(Listing(peers, clock))

FreshIsEmpty ==
  (nReg = 0) =>
    /\ ret.op = "count" => ret.count = 0
    /\ ret.op = "list" => ret.list = << >>
    /\ ret.op = "get" => ~ret.found

\* C10: count returns the number of stored records that are not older than the
\* TTL (an expired record not yet swept is not counted), which is the length of
\* the list taken at the same instant; on a fresh registry count is 0, list is
\* empty and get finds nothing.
C10_CountNonExpired == CountsLiveOnly /\ FreshIsEmpty

\* C10 restricted to the registry with TTL eviction (impl = "ttl"), where it holds.
C10_CountNonExpiredTTL == impl = "ttl" => C10_CountNonExpired

\* ---------------------------------------------------------------------- C11
\* C11: no record whose id is the empty string is stored and returned by get
\* or by list.
C11_NoEmptyPeerId ==
  /\ ~Get(peers, "", clock).found
  /\ \A p \in Listing(peers, clock) : p.ID # ""
  /\ (ret.op = "http" /\ ret.route = "/peers") =>
       \A i \in 1..Len(ret.body) : ret.body[i].id # ""

\* ---------------------------------------------------------------------- C12
\* A record with a zero-length candidate list is stored for id and has not
\* outlived the TTL.
ZeroLengthLive(id) ==
  /\ peers[id] # NoPeer
  /\ Len(peers[id].Candidates.elems) = 0
  /\ clock - peers[id].Timestamp <= peerTTL

\* C12: a register with a zero-length candidate list returns ok, and while the
\* TTL of the record has not elapsed get returns it with an empty list that
\* is not null (an encoded body carries [] and never null).
C12_ZeroLengthObservable ==
  /\ (ret.op = "register" /\ Len(ret.cands.elems) = 0) => RegisterStatus(ret.err) = 200
  /\ \A id \in Keys :
       ZeroLengthLive(id) =>
         /\ Get(peers, id, clock).found
         /\ Get(peers, id, clock).peer.Candidates = Slice(<< >>)
         /\ EncodePeer(Get(peers, id, clock).peer).candidates = JArray(<< >>)

\* C12 for the registrations whose list is a JSON array (decoded to a non-nil
\* slice), where it holds.
C12_ZeroLengthObservableArray ==
  (\A id \in Keys : peers[id] # NoPeer => ~peers[id].Candidates.nil)
    => C12_ZeroLengthObservable

\* ---------------------------------------------------------------------- C13
\* C13: until Close is called at most one UDP socket is created, the controller
\* holds it once it is bound, and the transport listeners, the punch sends and
\* the dials all use it.
C13_SingleSocket ==
  ~closeCalled =>
    /\ Len(socks) <= 1
    /\ Len(socks) = 1 => udpConn = 1
    /\ \A i \in 1..Len(lsnrs) : lsnrs[i].sock = 1
    /\ \A i \in 1..Len(trace) : trace[i].sock = 1

\* ---------------------------------------------------------------------- C14
\* C14: no socket is closed more than once; before Close is called the socket
\* the controller holds is open; when Close returns every socket created is
\* closed.
C14_SocketClosedOnceAtClose ==
  /\ \A n \in 1..Len(socks) : socks[n].closes <= 1
  /\ (~closeCalled /\ udpConn # 0) => socks[udpConn].open
  /\ ret.op = "Peer.Close" => \A n \in 1..Len(socks) : ~socks[n].open

\* ---------------------------------------------------------------------- C15
\* Which sockets and listeners are open, and what the controller refers to.
OpenState ==
  <<udpConn, quicListener, [n \in 1..Len(socks) |-> socks[n].open],
    [n \in 1..Len(lsnrs) |-> lsnrs[n].open]>>

\* C15: every Close returns success, whatever was called before it, and a Close
\* that directly follows a Close changes nothing.
C15_PeerCloseIdempotent ==
  [][ret'.op = "Peer.Close" =>
       /\ ~ret'.err
       /\ ret.op = "Peer.Close" => (OpenState' = OpenState /\ ret'.err = ret.err)]_vars

\* ---------------------------------------------------------------------- C16
\* C16: Register and Listen succeed only after DiscoverCandidates and before
\* Close, and a Connect gets to its hole punch only before Close.
C16_StateMachine ==
  [][/\ (ret'.op = "Peer.Listen" /\ ~ret'.err) => (discovered /\ ~closeCalled)
     /\ (ret'.op = "Peer.Register" /\ ~ret'.err) => (discovered /\ ~closeCalled)
     /\ (cpc = "idle" /\ cpc' = "punch") => ~closeCalled]_vars

\* ---------------------------------------------------------------------- C17
\* The configuration is invalid: no peer-id, or a port that is none.
InvalidConfig(cfg) == cfg.PeerID = "" \/ cfg.LocalPort \notin 0..65535

\* C17: NewPeer returns an error and no Peer exactly for an invalid
\* configuration; for a valid one the Peer has port 9000 and the URL
\* http://localhost:8080 where none was given, and no socket is created.
C17_NewPeerValidates ==
  ret.op = "Peer.NewPeer" =>
    /\ ret.err <=> InvalidConfig(ret.cfg)
    /\ ret.err <=> ~constructed
    /\ ~ret.err =>
         /\ config.PeerID = ret.cfg.PeerID
         /\ config.EnableSTUN = ret.cfg.EnableSTUN
         /\ config.LocalPort = (IF ret.cfg.LocalPort = 0 THEN 9000 ELSE ret.cfg.LocalPort)
         /\ config.SignalingURL = (IF ret.cfg.SignalingURL = "" THEN "http://localhost:8080"
                                   ELSE ret.cfg.SignalingURL)
         /\ socks = << >>
         /\ udpConn = 0

\* C17 without the port: NewPeer fails exactly for an empty peer-id.
C17_NewPeerValidatesPeerID ==
  ret.op = "Peer.NewPeer" => (ret.err <=> ret.cfg.PeerID = "")

\* ---------------------------------------------------------------------- C18
RegisterPushesCandidates ==
  ret.op = "Peer.Register" =>
    IF Len(candidates.elems) = 0
      THEN ret.err /\ ret.sent = NoRequest
      ELSE ret.sent = [route |-> "/register", id |-> config.PeerID,
                       candidates |-> JArray(candidates.elems)]

OnlyDiscoverStores ==
  /\ ret'.op = "Peer.DiscoverCandidates" => candidates' = ret'.list
  /\ candidates' # candidates => ret'.op = "Peer.DiscoverCandidates"

\* C18: Register returns an error and sends nothing when the controller holds no
\* candidates; otherwise it posts exactly its peer-id and the list it holds,
\* which is the list the most recent DiscoverCandidates returned.
C18_RegisterNeedsCandidates == []RegisterPushesCandidates /\ [][OnlyDiscoverStores]_vars

\* A Register has pushed the list of a discovery to the registry.
C18_Witness ==
  /\ ret.op = "Peer.Register"
  /\ ~ret.err
  /\ discovered
  /\ ret.sent # NoRequest
  /\ Len(ret.sent.candidates.elems) > 0

\* ---------------------------------------------------------------------- C19
\* A transport listener is active.
Listening == quicListener # 0 /\ lsnrs[quicListener].open

\* C19: Accept returns an error whenever no transport listener is active, and
\* calls the listener's Accept only while one is.
C19_AcceptOnlyWhileListening ==
  ret.op = "Peer.Accept" =>
    /\ ~Listening => ret.err
    /\ ret.delegated => Listening

\* C19 for the outcome alone: Accept returns an error whenever no transport
\* listener is active.
C19_AcceptFailsUnlessListening ==
  (ret.op = "Peer.Accept" /\ ~Listening) => ret.err

\* ---------------------------------------------------------------------- C20
RECURSIVE FiveEach(_)
\* Every element of s five times, in the order of s.
FiveEach(s) ==
  IF s = << >> THEN << >>
  ELSE <<Head(s), Head(s), Head(s), Head(s), Head(s)>> \o FiveEach(Tail(s))

IsPunch(e) == e.ev = "PUNCH"
IsDial(e) == e.ev = "DIAL"

\* The addresses of the "PUNCH" datagrams sent so far, in order.
PunchTargets == [i \in 1..Len(SelectSeq(trace, IsPunch)) |-> SelectSeq(trace, IsPunch)[i].to]

\* No "PUNCH" datagram is sent after a dial.
NoPunchAfterDial ==
  \A i, j \in 1..Len(trace) : (IsDial(trace[i]) /\ IsPunch(trace[j])) => j < i

\* C20 as stated: once holePunch has returned, 5 * N datagrams were sent, five to
\* each of the N candidates in list order, and none is sent after a dial.
C20_FiveNBeforeDial ==
  /\ NoPunchAfterDial
  /\ cpc \in {"sleep", "dial"} => PunchTargets = FiveEach(cCands.elems)

\* C20 amended: once holePunch has returned, five datagrams were sent to each
\* candidate that resolves, in list order (none to a candidate that does not),
\* and none is sent after a dial.
C20_FivePerResolvableBeforeDial ==
  /\ NoPunchAfterDial
  /\ cpc \in {"sleep", "dial"} => PunchTargets = FiveEach(SelectSeq(cCands.elems, Resolves))

\* A Connect to two candidates has sent ten datagrams and has dialed.
C20_Witness ==
  /\ cpc = "dial"
  /\ Len(cCands.elems) = 2
  /\ Len(PunchTargets) = 10
  /\ \E i \in 1..Len(trace) : IsDial(trace[i])

\* ---------------------------------------------------------------------- C21
\* The number of "PUNCH" datagrams whose send to c was attempted.
PunchesTo(c) == Cardinality({j \in 1..Len(trace) : IsPunch(trace[j]) /\ trace[j].to = c})

BurstCompletes ==
  cpc \in {"sleep", "dial"} =>
    \A i \in 1..Len(cCands.elems) :
      PunchesTo(cCands.elems[i]) = IF Resolves(cCands.elems[i]) THEN 5 ELSE 0

BurstNeverFails == cpc = "punch" => (cpc' \in {"punch", "sleep"} /\ ret'.op # "Peer.Connect")

\* C21: no step of the burst ends the Connect or returns an error, whatever
\* fails to resolve or to be sent; when the burst is over every candidate that
\* resolves has had its five send attempts, the ones after a candidate that did
\* not resolve and after a send that failed included.
C21_BurstResilient == []BurstCompletes /\ [][BurstNeverFails]_vars

\* The burst is over for two candidates: the first send failed, and the second
\* candidate has its five sends.
C21_Witness ==
  /\ cpc = "sleep"
  /\ Len(cCands.elems) = 2
  /\ Len(trace) > 0
  /\ ~trace[1].ok
  /\ PunchesTo(cCands.elems[2]) = 5

\* ---------------------------------------------------------------------- C22
\* The dials of the Connect call, in order, and the candidates that resolve.
Dials == SelectSeq(trace, IsDial)
Resolvable(cands) == SelectSeq(cands, Resolves)

\* Candidates are dialed in list order, each at most once, and only the last
\* dial made can have succeeded.
DialsInOrder ==
  /\ \A i \in 1..Len(Dials) : i < Len(Dials) => ~Dials[i].ok
  /\ cpc = "dial" =>
       /\ Len(Dials) <= Len(Resolvable(cCands.elems))
       /\ \A i \in 1..Len(Dials) : Dials[i].to = Resolvable(cCands.elems)[i]

\* connectQUIC returns: the session of the dial that succeeded, which is the
\* last one made, or the error when every candidate that resolves was dialed
\* and no dial succeeded.
DialReturn ==
  (cpc = "dial" /\ cpc' = "idle") =>
    LET d == SelectSeq(trace', IsDial)
    IN /\ ~ret'.err => (Len(d) > 0 /\ d[Len(d)].ok /\ ret'.conn.to = d[Len(d)].to)
       /\ ret'.err <=> (\A i \in 1..Len(d) : ~d[i].ok)
       /\ ret'.err => Len(d) = Len(Resolvable(cCands.elems))

\* C22: connectQUIC dials the candidates that resolve in list order, each at
\* most once, stops at the first dial that succeeds and returns its session,
\* and returns the error exactly when no candidate resolved and was dialed
\* with success (the empty list included).
C22_FirstSuccessfulDial == []DialsInOrder /\ [][DialReturn]_vars

\* A Connect to two candidates returned the session of the first one and the
\* second was never dialed.
C22_Witness ==
  /\ ret.op = "Peer.Connect"
  /\ ~ret.err
  /\ Len(PunchTargets) = 10
  /\ Len(Dials) = 1
  /\ ret.conn.to = Dials[1].to

\* ---------------------------------------------------------------------- C28
\* The STUN probe of the DiscoverCandidates call that returned was made and
\* found an address.
ProbeSucceeded == config.EnableSTUN /\ ret.stun # ""

\* C28: DiscoverCandidates returns no error whatever the probe did; its result
\* is the reflexive candidate, present exactly when the probe is enabled and
\* succeeded, followed by the local addresses in enumeration order, so the
\* local addresses alone when the probe failed; the stored list is that result.
C28_DiscoverResult ==
  ret.op = "Peer.DiscoverCandidates" =>
    LET list == ret.list.elems
        off == IF ProbeSucceeded THEN 1 ELSE 0
    IN /\ ~ret.err
       /\ Len(list) = off + Len(ret.addrs)
       /\ ProbeSucceeded => list[1].IP = ret.stun
       /\ \A i \in 1..Len(ret.addrs) : list[off + i].IP = ret.addrs[i]
       /\ candidates = ret.list

\* The probe was enabled and failed, and the call, made after two other calls
\* on the controller, returned the one local candidate.
C28_Witness ==
  /\ ret.op = "Peer.DiscoverCandidates"
  /\ config.EnableSTUN
  /\ ret.stun = ""
  /\ Len(ret.list.elems) = 1
  /\ nCalls >= 3

\* ---------------------------------------------------------------------- C29
\* The step is the locked part of cleanupExpired.
SweepStep == sweepPc = "now" /\ sweepPc' = "select"

SweepDeletesOnlyExpired ==
  SweepStep =>
    \A id \in PeerIDs :
      (peers[id] # NoPeer /\ peers'[id] = NoPeer) => clock - peers[id].Timestamp > peerTTL

\* C29: whatever was registered between the sweeper's reading of the clock and
\* its taking of the lock, every record the sweep deletes is older than the
\* TTL at the time of the deletion.
C29_SweepSparesLive == [][SweepDeletesOnlyExpired]_vars

\* A sweep deleted one record and kept another, built more than a TTL after
\* the deleted one.
C29_Witness ==
  /\ impl = "ttl"
  /\ sweepPc = "select"
  /\ \E id \in PeerIDs, other \in PeerIDs :
       /\ peers[id] = NoPeer
       /\ twin[id] # NoPeer
       /\ peers[other] # NoPeer
       /\ peers[other].Timestamp > twin[id].Timestamp + peerTTL

\* ---------------------------------------------------------------------- C26
\* Listen or Connect returned an error and Close was never called.
FailedWithoutClose == ret.op \in {"Peer.Listen", "Peer.Connect"} /\ ret.err /\ ~closeCalled

\* C26: after a Listen or a Connect that failed, on a controller that was never
\* closed, the controller holds no socket or an open one, so that the next
\* Listen or Connect works on a usable socket.
C26_UsableAfterFailure == FailedWithoutClose => (udpConn = 0 \/ socks[udpConn].open)

\* ---------------------------------------------------------------------- C23
\* The loops over the listing of a tick have just ended.
TickDone == ret.op = "Peer.ContinuousHolePunch" /\ ret.tick

\* The sends of the tick made for candidate j of entry i of the listing.
TickPunches(i, j) == {k \in 1..Len(hTrace) : hTrace[k].pi = i /\ hTrace[k].cj = j}

\* Every send of the tick is a "PUNCH" to a candidate of the listing.
TickSendsListed ==
  \A k \in 1..Len(hTrace) :
    /\ hTrace[k].ev = "PUNCH"
    /\ hTrace[k].pi \in 1..Len(hPeers)
    /\ hTrace[k].cj \in 1..Len(hPeers[hTrace[k].pi].Candidates.elems)
    /\ hTrace[k].to = hPeers[hTrace[k].pi].Candidates.elems[hTrace[k].cj]

\* C23 as stated: when a tick is over nothing was sent to the candidates of
\* the entry with the own peer-id and exactly one "PUNCH" to each candidate of
\* every other entry of the listing.
C23_OnePunchPerCandidate ==
  TickDone =>
    /\ TickSendsListed
    /\ \A i \in 1..Len(hPeers) : \A j \in 1..Len(hPeers[i].Candidates.elems) :
         Cardinality(TickPunches(i, j)) = IF hPeers[i].ID = config.PeerID THEN 0 ELSE 1

\* C23: when a tick is over nothing was sent to the candidates of the entry
\* with the own peer-id nor to a candidate that does not resolve, and exactly
\* one "PUNCH" to each other candidate of the listing, whether its peer was in
\* knownPeers before the tick or not.
C23_OnePunchPerResolvable ==
  TickDone =>
    /\ TickSendsListed
    /\ \A i \in 1..Len(hPeers) : \A j \in 1..Len(hPeers[i].Candidates.elems) :
         Cardinality(TickPunches(i, j)) =
           IF hPeers[i].ID = config.PeerID \/ ~Resolves(hPeers[i].Candidates.elems[j])
             THEN 0 ELSE 1

\* A tick is over whose listing had the own entry, with a candidate, and a
\* peer seen in an earlier tick, which was sent a datagram again.
C23_Witness ==
  /\ TickDone
  /\ \E i \in 1..Len(hPeers) :
       hPeers[i].ID = config.PeerID /\ Len(hPeers[i].Candidates.elems) > 0
  /\ \E k \in 1..Len(hTrace) : ~hTrace[k].new

\* ---------------------------------------------------------------------- C24
\* The select takes the tick: a fetch begins.
TickStarts == hpc = "wait" /\ hTickPending /\ ~hTickPending' /\ hpc' # "done"

\* C24: once the context is cancelled the task starts no tick: at the select
\* it is waiting at, or reaches next, it takes the cancellation and returns.
C24_NoTickAfterCancel == [][cancelled => ~TickStarts]_vars

\* ---------------------------------------------------------------------- C25
\* C25: once the application has cancelled its context, a Connect in progress
\* makes no further send and no further dial.
C25_ConnectStopsOnCancel == [][(cancelled /\ cpc # "idle") => trace' = trace]_vars

\* ---------------------------------------------------------------------- C27
\* The peer id was in the listing of this tick or of an earlier one.
Listed(id) == id \in knownPeers \/ \E i \in 1..Len(hPeers) : hPeers[i].ID = id

\* The task runs, one tick period has passed since the instant peer was
\* registered at, and the tick of this instant has been taken.
TickTakenAfter(peer) ==
  /\ hpc \in {"wait", "send"}
  /\ ~hTickPending
  /\ clock = peer.Timestamp + punchInterval

\* C27: a peer other than the controller's own that is registered while the
\* task runs and has not expired is in the listing of the tick that follows
\* within one tick period, and when that tick is over each of its candidates
\* was sent a datagram.
C27_ListedWithinOnePeriod ==
  \A id \in Keys \ {config.PeerID} :
    (peers[id] # NoPeer /\ Live(clock, peers[id]) /\ TickTakenAfter(peers[id])) =>
      /\ Listed(id)
      /\ TickDone =>
           \A i \in 1..Len(hPeers) :
             hPeers[i].ID = id =>
               \A j \in 1..Len(hPeers[i].Candidates.elems) : TickPunches(i, j) # {}

\* ---------------------------------------------------------------------- C30
\* Close was called and the socket the controller holds is closed.
ClosedByClose == closeCalled /\ udpConn # 0 /\ ~socks[udpConn].open

\* The step attempts the write of a datagram, in a tick or in a burst.
PunchWrite == Len(hTrace') > Len(hTrace) \/ (cpc = "punch" /\ Len(trace') > Len(trace))

\* C30: whatever Close is interleaved with, no write of a datagram is
\* attempted on the socket once Close has closed it.
C30_NoWriteAfterClose == [][ClosedByClose => ~PunchWrite]_vars

====
